---- MODULE Spec2Model ----
(***************************************************************************)
(* UltimateFindchipsScraper (src/supply-chain-scraper/main.py): the shared *)
(* record list all_parts, the shared set visited_urls, the lock, the       *)
(* periodic saver, the six worker threads and run_parallel.                *)
(*                                                                         *)
(* Text is a sequence of one-character strings, so "" is << >>.            *)
(* A part is the dict built by extract_rows_from_search_page, restricted   *)
(* to the columns MPN, Price_Qty, Unit_Price, Currency, Supplier_Name,     *)
(* On_Hand_Stock and Distributor_Block; has_scrape_time says whether the   *)
(* key 'scrape_time' is in the dict.                                       *)
(*                                                                         *)
(* Spec runs run_parallel with NumWorkers worker threads, the categories   *)
(* split among them by the rule of lines 792-800; SpecSplit applies that   *)
(* rule with the NumThreads = 6 threads of the code.  The record cap of    *)
(* line 634 is scaled down to RecordCap so that runs reach it.  The pages  *)
(* the driver shows are given by a site (Sites).  FairSpec adds the        *)
(* scheduling: every thread keeps running, no statement has to raise.      *)
(* SpecRows applies the row extraction and add_parts_threadsafe to the     *)
(* results page of one identifier, for every distributor row of TestRows.  *)
(***************************************************************************)
EXTENDS Integers, Sequences, FiniteSets, TLC

\* ------------------------------------------------------------------ bounds
\* The largest number of top-level categories the discovery step returns.
MaxCats == 3
\* The number of worker threads that run concurrently (run_parallel starts
\* NumThreads of them).
NumWorkers == 2
\* The largest category list the split is applied to on its own.
MaxSplitCats == 60
\* The largest number of file writes that fail in one run.
MaxWriteFailures == 1
\* The largest number of exceptions that navigation and logging raise in one
\* run.
MaxRaised == 1
\* The longest price list of a distributor row of TestRows.
MaxPairs == 2

\* --------------------------------------------------------------- constants
\* len(self.all_parts) > 500000 (line 634), scaled down to a reachable size.
RecordCap == 2
\* value[:100] in save_csv (line 732).
FieldMax == 100
\* cleaned[:50] in clean_price_text (line 66).
PriceMax == 50
\* cleaned[:30] in clean_mfg_name (line 237).
MfgMax == 30
\* The six threads of run_parallel (lines 792-800).
NumThreads == 6
\* 6 <= len(candidate) <= 40 (line 279).
MpnMinLen == 6
MpnMaxLen == 40

\* ------------------------------------------------------------------- text
UpperChars == {"A", "B", "C", "D", "M", "X"}
LowerChars == {"a", "b", "c", "d", "e", "f", "g", "h", "i", "j", "k", "l", "m",
               "n", "o", "p", "q", "r", "s", "t", "u", "v", "w", "x", "y", "z"}
DigitChars == {"0", "1", "2", "3", "4", "5", "6", "7", "8", "9"}
SpaceChars == {" ", "\t", "\n", "\r"}
CurrencyChars == {"$"}

\* str.lower() on one character.
LowerChar(c) ==
    CASE c = "A" -> "a" [] c = "B" -> "b" [] c = "C" -> "c" [] c = "D" -> "d"
      [] c = "M" -> "m" [] c = "X" -> "x" [] OTHER -> c

ToLower(s) == [i \in 1..Len(s) |-> LowerChar(s[i])]

\* s[:n]
Take(s, n) == IF Len(s) <= n THEN s ELSE SubSeq(s, 1, n)

\* s[n:]
Drop(s, n) == IF Len(s) <= n THEN << >> ELSE SubSeq(s, n + 1, Len(s))

\* The characters of s that satisfy keep, in order (re.sub of the others by '').
RECURSIVE KeepChars(_, _)
KeepChars(s, keep) ==
    IF s = << >> THEN << >>
    ELSE IF Head(s) \in keep THEN <<Head(s)>> \o KeepChars(Tail(s), keep)
         ELSE KeepChars(Tail(s), keep)

\* s.lstrip()
RECURSIVE LStrip(_)
LStrip(s) ==
    IF s = << >> THEN << >>
    ELSE IF Head(s) \in SpaceChars THEN LStrip(Tail(s)) ELSE s

\* s.rstrip()
RECURSIVE RStrip(_)
RStrip(s) ==
    IF s = << >> THEN << >>
    ELSE IF s[Len(s)] \in SpaceChars THEN RStrip(SubSeq(s, 1, Len(s) - 1)) ELSE s

\* s.strip()
Strip(s) == RStrip(LStrip(s))

\* re.sub(r'\s+', ' ', s): every run of whitespace becomes one space.
RECURSIVE CollapseSpaces(_)
CollapseSpaces(s) ==
    IF s = << >> THEN << >>
    ELSE IF Head(s) \in SpaceChars
         THEN <<" ">> \o CollapseSpaces(LStrip(s))
         ELSE <<Head(s)>> \o CollapseSpaces(Tail(s))

\* kw in s
Contains(s, kw) ==
    \E i \in 1..(Len(s) - Len(kw) + 1) : SubSeq(s, i, i + Len(kw) - 1) = kw

\* The longest prefix of s made of characters of cls.
RECURSIVE Run(_, _)
Run(s, cls) ==
    IF s = << >> \/ Head(s) \notin cls THEN << >>
    ELSE <<Head(s)>> \o Run(Tail(s), cls)

\* ------------------------------------------------------------ pure helpers
\* clean_price_text
clean_price_text(price_text) ==
    IF price_text = << >> \/ Strip(price_text) = << >> THEN << >>
    ELSE
      LET cleaned == KeepChars(Strip(price_text),
                               {price_text[i] : i \in 1..Len(price_text)} \ SpaceChars)
          numCls  == DigitChars \cup {","}
          starts  == {i \in 1..Len(cleaned) : cleaned[i] \in numCls}
      IN IF starts = {} THEN Take(cleaned, PriceMax)
         ELSE
           LET j      == CHOOSE i \in starts : \A k \in starts : i <= k
               rest   == Drop(cleaned, j - 1)
               intPart == Run(rest, numCls)
               after  == Drop(rest, Len(intPart))
               frac   == IF after # << >> /\ Head(after) = "."
                         THEN <<".">> \o Run(Tail(after), DigitChars)
                         ELSE << >>
               numeric_price == KeepChars(intPart \o frac, DigitChars \cup {"."})
               syms   == {i \in 1..Len(cleaned) : cleaned[i] \in CurrencyChars}
           IN IF syms # {}
              THEN <<cleaned[CHOOSE i \in syms : \A k \in syms : i <= k]>> \o numeric_price
              ELSE numeric_price

\* get_currency_from_price, on texts of the characters used here (of the
\* tests of lines 191-199 those for 'CNY', 'GBP', 'INR' and '$').
get_currency_from_price(price_text) ==
    IF price_text = << >> THEN <<"U", "S", "D">>
    ELSE IF Contains(price_text, <<"C", "N", "Y">>) THEN <<"C", "N", "Y">>
    ELSE IF Contains(price_text, <<"G", "B", "P">>) THEN <<"G", "B", "P">>
    ELSE IF Contains(price_text, <<"I", "N", "R">>) THEN <<"I", "N", "R">>
    ELSE <<"U", "S", "D">>

\* search_keywords of clean_mfg_name
search_keywords ==
    { <<"p","a","r","a","m","e","t","r","i","c">>, <<"s","e","a","r","c","h">>,
      <<"f","i","l","t","e","r">>, <<"c","a","t","e","g","o","r","y">>,
      <<"b","r","o","w","s","e">>, <<"r","e","s","u","l","t","s">>,
      <<"v","i","e","w">>, <<"f","i","n","d">>, <<"p","a","r","t","s">>,
      <<"l","i","s","t">>, <<"d","a","t","a">>, <<"s","e","l","e","c","t">>,
      <<"s","p","o","n","s","o","r","e","d">>, <<"a","l","e","r","t">>,
      <<"l","o","a","d","i","n","g">>, <<"p","a","g","e">> }

\* clean_mfg_name
clean_mfg_name(mfg_text) ==
    IF mfg_text = << >> \/ Len(Strip(mfg_text)) < 2 THEN << >>
    ELSE IF \E kw \in search_keywords : Contains(ToLower(mfg_text), kw) THEN << >>
    ELSE
      LET word    == UpperChars \cup LowerChars \cup DigitChars \cup {"_"}
          kept    == KeepChars(Strip(mfg_text), word \cup SpaceChars \cup {"&", "-"})
          cleaned == Strip(CollapseSpaces(kept))
          letters == UpperChars \cup LowerChars
          body    == letters \cup SpaceChars \cup {"&", "-"}
          n       == Len(cleaned)
      IN IF /\ n >= 2
            /\ n <= 30
            /\ cleaned[1] \in UpperChars
            /\ \A i \in 2..n : cleaned[i] \in body
            /\ (n = 30 => cleaned[n] \in letters)
            /\ \A i \in 1..n : cleaned[i] \notin DigitChars
         THEN Take(cleaned, MfgMax)
         ELSE << >>

\* The candidate test of _extract_mpns_from_detail_links (line 279).
ValidMpnFormat(candidate) ==
    /\ MpnMinLen <= Len(candidate)
    /\ Len(candidate) <= MpnMaxLen
    /\ \E i \in 1..Len(candidate) : candidate[i] \in DigitChars

\* The cleaning with the slice reversed: value[100:].
CleanValue_tail(value) ==
    Drop(Strip(CollapseSpaces(value)), FieldMax)

\* The per-field cleaning of save_csv (lines 729-732).
CleanValue(value) ==
    Take(Strip(CollapseSpaces(value)), FieldMax)

\* --------------------------------------------------------------- the site
\* What the rendering engine shows: per category address the detail-link
\* candidates and the '/parametric/' links, per identifier the results page
\* (its distributor rows, its "no manufacturers" marker, its '/parametric/'
\* links).
M1 == <<"A", "B", "C", "1", "2", "3">>
M2 == <<"X", "1", "2", "3", "4", "5">>
M3 == <<"M", "M", "M", "0", "0", "0">>
ShortCand == <<"A", "1">>

Urls == {"A", "B", "C"}
Mpns == {M1, M2, M3, ShortCand}

NoRow == << >>

\* A distributor row with two valid price pairs and one without a quantity.
RowPrices ==
    [ distributor_name |-> <<"A", " ", " ", "b">>,
      data_stock |-> <<"5">>, td_stock |-> << >>, data_instock |-> << >>,
      prices |-> << [qty |-> <<"1", "0", "+">>, value |-> <<"$", "3", ",", "2", "5", "0", ".", "0">>],
                    [qty |-> <<"1", "0", "0">>, value |-> <<" ", "2", ".", "5">>],
                    [qty |-> <<"+">>, value |-> <<"$", "1">>] >> ]

\* A row without a price list, its stock in the stock cell.
RowStockOnly ==
    [ distributor_name |-> <<"A", "b">>,
      data_stock |-> <<"x">>, td_stock |-> <<"7">>, data_instock |-> <<"9">>,
      prices |-> << >> ]

\* A row with neither price list nor stock.
RowNoSignal ==
    [ distributor_name |-> <<"A", "c">>,
      data_stock |-> << >>, td_stock |-> << >>, data_instock |-> << >>,
      prices |-> << >> ]

\* A row whose distributor name holds a blocked keyword ("Data").
RowPolluted ==
    [ distributor_name |-> <<"D", "a", "t", "a">>,
      data_stock |-> <<"3">>, td_stock |-> << >>, data_instock |-> << >>,
      prices |-> << >> ]

\* A row whose distributor name is blank.
RowBlank ==
    [ distributor_name |-> <<" ", " ">>,
      data_stock |-> <<"3">>, td_stock |-> << >>, data_instock |-> << >>,
      prices |-> << >> ]

\* A catalog without identifiers: A -> B -> A (a cycle), B -> C, C -> C.
SiteCycle ==
    [ cat_links    |-> [u \in Urls |-> CASE u = "A" -> <<"B">>
                                         [] u = "B" -> <<"A", "C">>
                                         [] OTHER   -> <<"C">>],
      cat_mpns     |-> [u \in Urls |-> << >>],
      no_mfg       |-> [m \in Mpns |-> FALSE],
      rows         |-> [m \in Mpns |-> NoRow],
      search_links |-> [m \in Mpns |-> << >>] ]

\* A catalog with identifiers: A lists M1 (and a too-short candidate), B lists
\* M3, whose results page says "no manufacturers", and M2; A and B link to
\* each other; the results page of M1 links to C.
SiteParts ==
    [ cat_links    |-> [u \in Urls |-> CASE u = "A" -> <<"B">>
                                         [] u = "B" -> <<"A">>
                                         [] OTHER   -> << >>],
      cat_mpns     |-> [u \in Urls |-> CASE u = "A" -> <<M1, ShortCand>>
                                         [] u = "B" -> <<M3, M2>>
                                         [] OTHER   -> << >>],
      no_mfg       |-> [m \in Mpns |-> m = M3],
      rows         |-> [m \in Mpns |-> CASE m = M1 -> <<RowPrices, RowPolluted>>
                                         [] m = M2 -> <<RowStockOnly, RowNoSignal, RowBlank>>
                                         [] OTHER  -> NoRow],
      search_links |-> [m \in Mpns |-> IF m = M1 THEN <<"C">> ELSE << >>] ]

Sites == {SiteCycle, SiteParts}

\* The hrefs of the discovered categories, in discovery order; two category
\* names may carry the same href (get_all_main_categories keys by name).
Hrefs == <<"A", "B", "C">>
Discovered(n) == [i \in 1..n |-> [href |-> Hrefs[((i - 1) % Len(Hrefs)) + 1], cat_name |-> i]]

\* The distributor rows the extraction is applied to on its own: the name
\* attribute (absent, blank, clean, to be cleaned, holding a blocked
\* keyword), the three stock sources, and a price list of up to MaxPairs
\* entries (label and value texts).
TestNames ==
    { << >>, <<" ", " ">>, <<"A", "b">>, <<"A", " ", " ", "b">>, <<"D", "a", "t", "a">> }
TestDataStock == { << >>, <<"5">>, <<"x">> }
TestTdStock == { << >>, <<" ", "7">> }
TestDataInstock == { << >>, <<"9">> }
TestPairs ==
    { [qty |-> <<"1", "0", "+">>, value |-> <<"$", "3", ",", "2", "5", "0", ".", "0">>],
      [qty |-> <<"1", "0", "0">>, value |-> <<"G", "B", "P", " ", "2", ".", "5">>],
      [qty |-> <<"+">>, value |-> <<"$", "1">>],
      [qty |-> <<"5">>, value |-> <<" ">>],
      [qty |-> <<"5">>, value |-> <<"c", "a", "l", "l">>] }
TestPriceLists == UNION { [1..n -> TestPairs] : n \in 0..MaxPairs }
TestRows ==
    [ distributor_name : TestNames, data_stock : TestDataStock,
      td_stock : TestTdStock, data_instock : TestDataInstock,
      prices : TestPriceLists ]

\* A catalog whose one category page A lists M1, the results page of M1
\* showing the one distributor row tr.
SiteRow(tr) ==
    [ cat_links    |-> [u \in Urls |-> << >>],
      cat_mpns     |-> [u \in Urls |-> IF u = "A" THEN <<M1>> ELSE << >>],
      no_mfg       |-> [m \in Mpns |-> FALSE],
      rows         |-> [m \in Mpns |-> IF m = M1 THEN <<tr>> ELSE NoRow],
      search_links |-> [m \in Mpns |-> << >>] ]

\* ---------------------------------------------------------- row extraction
\* s.isdigit()
IsDigit(s) == s # << >> /\ \A i \in 1..Len(s) : s[i] \in DigitChars

\* extract_perfect_stock
extract_perfect_stock(tr) ==
    IF tr.data_stock # << >> /\ IsDigit(Strip(tr.data_stock)) THEN Strip(tr.data_stock)
    ELSE IF Strip(tr.td_stock) # << >> /\ IsDigit(Strip(tr.td_stock)) THEN Strip(tr.td_stock)
    ELSE IF tr.data_instock # << >> /\ IsDigit(Strip(tr.data_instock)) THEN Strip(tr.data_instock)
    ELSE << >>

\* base_part of extract_rows_from_search_page (lines 546-556)
BasePart(mpn, tr) ==
    [ MPN |-> mpn,
      Price_Qty |-> << >>,
      Unit_Price |-> << >>,
      Currency |-> << >>,
      Supplier_Name |-> clean_mfg_name(tr.distributor_name),
      On_Hand_Stock |-> extract_perfect_stock(tr),
      Distributor_Block |-> tr.distributor_name,
      has_scrape_time |-> FALSE,
      scrape_time |-> << >> ]

\* The price-break loop (lines 590-613).
RECURSIVE PriceRecords(_, _)
PriceRecords(base_part, lis) ==
    IF lis = << >> THEN << >>
    ELSE
      LET li          == Head(lis)
          clean_price == clean_price_text(Strip(li.value))
          qty_num     == KeepChars(Strip(li.qty), DigitChars)
      IN (IF qty_num # << >> /\ clean_price # << >>
          THEN << [base_part EXCEPT !.Price_Qty = qty_num,
                                    !.Unit_Price = clean_price,
                                    !.Currency = get_currency_from_price(Strip(li.value))] >>
          ELSE << >>)
         \o PriceRecords(base_part, Tail(lis))

\* The row without the continue of line 615: the fallback record follows
\* the price-break records.
RowRecords_alsoBase(mpn, tr) ==
    IF tr.distributor_name = << >> THEN << >>
    ELSE IF Len(clean_mfg_name(tr.distributor_name)) < 2 THEN << >>
    ELSE
      LET base_part == BasePart(mpn, tr)
      IN (IF tr.prices # << >> THEN PriceRecords(base_part, tr.prices) ELSE << >>)
         \o (IF base_part.Supplier_Name # << >> /\ base_part.On_Hand_Stock # << >>
             THEN <<base_part>>
             ELSE << >>)

\* The records of one distributor row (lines 536-618).
RowRecords(mpn, tr) ==
    IF tr.distributor_name = << >> THEN << >>
    ELSE IF Len(clean_mfg_name(tr.distributor_name)) < 2 THEN << >>
    ELSE
      LET base_part == BasePart(mpn, tr)
      IN IF tr.prices # << >> THEN PriceRecords(base_part, tr.prices)
         ELSE IF base_part.Supplier_Name # << >> /\ base_part.On_Hand_Stock # << >>
              THEN <<base_part>>
              ELSE << >>

\* extract_rows_from_search_page
RECURSIVE RowsData(_, _)
RowsData(mpn, trs) ==
    IF trs = << >> THEN << >>
    ELSE RowRecords(mpn, Head(trs)) \o RowsData(mpn, Tail(trs))

extract_rows_from_search_page(st, mpn) == RowsData(mpn, st.rows[mpn])

\* find_real_mpns: the candidates of the page that pass the format test.
find_real_mpns(st, url) == SelectSeq(st.cat_mpns[url], ValidMpnFormat)

\* The filter asking for a price as well.
Admitted_priced(part) ==
    part.MPN # << >> /\ part.Supplier_Name # << >> /\ part.Unit_Price # << >>

\* The filter of add_parts_threadsafe (line 40).
Admitted(part) == part.MPN # << >> /\ part.Supplier_Name # << >>

\* add_parts_threadsafe: the list after the loop of lines 39-41.
AppendAdmitted(parts, new_parts) == parts \o SelectSeq(new_parts, Admitted)

\* ------------------------------------------------------------ partitioning
\* main_cats[a:b] (Python slice, 0-based, end exclusive)
Slice(s, a, b) ==
    LET lo == IF a > Len(s) THEN Len(s) ELSE a
        hi == IF b > Len(s) THEN Len(s) ELSE b
    IN IF hi <= lo THEN << >> ELSE SubSeq(s, lo + 1, hi)

\* The last subset cut like the others: main_cats[5*k:6*k].
ThreadsCategories_even(cats, n_threads) ==
    LET categories_per_thread == Len(cats) \div n_threads
    IN [i \in 1..n_threads |->
          Slice(cats, (i - 1) * categories_per_thread, i * categories_per_thread)]

\* The subsets of run_parallel (lines 792-800) for n_threads threads: the
\* first n_threads - 1 take categories_per_thread each, the last one the rest.
ThreadsCategories(cats, n_threads) ==
    LET categories_per_thread == Len(cats) \div n_threads
    IN [i \in 1..n_threads |->
          IF i < n_threads
          THEN Slice(cats, (i - 1) * categories_per_thread, i * categories_per_thread)
          ELSE Slice(cats, (n_threads - 1) * categories_per_thread, Len(cats))]

\* ------------------------------------------------------------------ state
VARIABLES
    site,               \* the catalog the run reads
    discovered,         \* what get_all_main_categories returns
    all_parts,          \* self.all_parts
    visited_urls,       \* self.visited_urls
    lock,               \* self.lock: its holder, or NoThread
    save_filename,      \* self.save_filename: "None" or the file's name
    save_running,       \* self.save_running
    csv_rows,           \* the rows of the output file: <<index in all_parts, row>>
    write_failures,     \* the number of "Save error" lines logged
    threads_categories, \* the subsets handed to the workers
    pc,                 \* the statement each thread is at
    stack,              \* per worker, the scrape_category_tree frames
    cat_idx,            \* per worker, the position in its subset
    page,               \* per worker, the page its driver shows
    rows,               \* per worker, the rows of the last results page
    new_parts,          \* per saving thread, the indices save_csv selected
    nav,                \* per worker and address, the driver.get(url) calls
    thread_errors,      \* the workers that logged "Thread #i error" (line 769)
    raised              \* the exceptions raised so far in the run

vars == << site, discovered, all_parts, visited_urls, lock, save_filename,
           save_running, csv_rows, write_failures, threads_categories, pc,
           stack, cat_idx, page, rows, new_parts, nav, thread_errors, raised >>

MainThread == 0
Workers == 1..NumWorkers
SaverThread == NumWorkers + 1
Threads == {MainThread} \cup Workers \cup {SaverThread}
Savers == {MainThread, SaverThread}
NoThread == -1

FileName == "output/stock.csv"
\* datetime.now().strftime('%Y-%m-%d %H:%M')
Stamp == <<"T">>

BlankPage == [kind |-> "blank", url |-> "", mpn |-> << >>]
CategoryPage(u) == [kind |-> "category", url |-> u, mpn |-> << >>]
SearchPage(m) == [kind |-> "search", url |-> "", mpn |-> m]
\* The session after driver.quit() (line 771).
ClosedPage == [kind |-> "closed", url |-> "", mpn |-> << >>]

\* driver.find_elements(By.CSS_SELECTOR, "a[href*='/parametric/']") on a page
PageLinks(st, pg) ==
    IF pg.kind = "category" THEN st.cat_links[pg.url]
    ELSE IF pg.kind = "search" THEN st.search_links[pg.mpn]
    ELSE << >>

\* __init__ (lines 21-34), before run_parallel is called.
Init ==
    /\ site \in Sites
    /\ discovered \in {Discovered(n) : n \in 0..MaxCats}
    /\ all_parts = << >>
    /\ visited_urls = {}
    /\ lock = NoThread
    /\ save_filename = "None"
    /\ save_running = FALSE
    /\ csv_rows = << >>
    /\ write_failures = 0
    /\ threads_categories = << >>
    /\ pc = [t \in Threads |-> IF t = MainThread THEN "rp_start" ELSE "idle"]
    /\ stack = [w \in Workers |-> << >>]
    /\ cat_idx = [w \in Workers |-> 0]
    /\ page = [w \in Workers |-> BlankPage]
    /\ rows = [w \in Workers |-> << >>]
    /\ new_parts = [t \in Savers |-> {}]
    /\ nav = [w \in Workers |-> [u \in Urls |-> 0]]
    /\ thread_errors = {}
    /\ raised = 0

\* The process lives until run_parallel returns (the threads are daemons).
Running == pc[MainThread] # "rp_done"

\* ------------------------------------------------------------ run_parallel
\* Lines 780-810: setup_auto_save, discovery, the early return, the split
\* and the launch of the six workers.
RunParallelStart ==
    /\ pc[MainThread] = "rp_start"
    /\ save_filename' = FileName
    /\ save_running' = TRUE
    /\ IF Len(discovered) = 0
       THEN /\ pc' = [pc EXCEPT ![MainThread] = "rp_done", ![SaverThread] = "as_loop"]
            /\ UNCHANGED threads_categories
       ELSE /\ threads_categories' = ThreadsCategories(discovered, NumWorkers)
            /\ pc' = [t \in Threads |->
                        IF t = MainThread THEN "rp_join"
                        ELSE IF t = SaverThread THEN "as_loop" ELSE "wt_loop"]
    /\ UNCHANGED << site, discovered, raised, thread_errors, all_parts, visited_urls, lock, csv_rows,
                    write_failures, stack, cat_idx, page, rows, new_parts, nav >>

\* Lines 813-814: every worker has been joined.
RunParallelJoin ==
    /\ pc[MainThread] = "rp_join"
    /\ \A w \in Workers : pc[w] = "wt_done"
    /\ pc' = [pc EXCEPT ![MainThread] = "rp_stop"]
    /\ UNCHANGED << site, discovered, raised, thread_errors, all_parts, visited_urls, lock, save_filename,
                    save_running, csv_rows, write_failures, threads_categories,
                    stack, cat_idx, page, rows, new_parts, nav >>

\* The final save_csv left out.
RunParallelStop_nosave ==
    /\ pc[MainThread] = "rp_stop"
    /\ save_running' = FALSE
    /\ pc' = [pc EXCEPT ![MainThread] = "rp_done"]
    /\ UNCHANGED << site, discovered, raised, thread_errors, all_parts, visited_urls, lock, save_filename,
                    csv_rows, write_failures, threads_categories,
                    stack, cat_idx, page, rows, new_parts, nav >>

\* Lines 817-818: save_running = False, then the call of save_csv.
RunParallelStop ==
    /\ pc[MainThread] = "rp_stop"
    /\ save_running' = FALSE
    /\ pc' = [pc EXCEPT ![MainThread] = "sv_pre"]
    /\ UNCHANGED << site, discovered, raised, thread_errors, all_parts, visited_urls, lock, save_filename,
                    csv_rows, write_failures, threads_categories,
                    stack, cat_idx, page, rows, new_parts, nav >>

\* --------------------------------------------------------------- save_csv
\* Where save_csv returns to: run_parallel's last lines, or line 708.
AfterSave(t) == IF t = MainThread THEN "rp_done" ELSE "as_print"

\* Lines 715-716, read without the lock.
SaveCsvPre(t) ==
    /\ Running
    /\ pc[t] = "sv_pre"
    /\ pc' = [pc EXCEPT ![t] = IF all_parts = << >> \/ save_filename = "None"
                                THEN AfterSave(t) ELSE "sv_lock"]
    /\ UNCHANGED << site, discovered, raised, thread_errors, all_parts, visited_urls, lock, save_filename,
                    save_running, csv_rows, write_failures, threads_categories,
                    stack, cat_idx, page, rows, new_parts, nav >>

\* Line 718: with self.lock
SaveCsvLock(t) ==
    /\ Running
    /\ pc[t] = "sv_lock"
    /\ lock = NoThread
    /\ lock' = t
    /\ pc' = [pc EXCEPT ![t] = "sv_filter"]
    /\ UNCHANGED << site, discovered, raised, thread_errors, all_parts, visited_urls, save_filename,
                    save_running, csv_rows, write_failures, threads_categories,
                    stack, cat_idx, page, rows, new_parts, nav >>

\* The filter left out: every record is selected.
Unsaved_all(parts) == 1..Len(parts)

\* The indices of the records without the key 'scrape_time' (line 720).
Unsaved(parts) == {i \in 1..Len(parts) : ~parts[i].has_scrape_time}

\* Lines 725-733 on one record.
CleanPart(part) ==
    [ MPN |-> CleanValue(part.MPN),
      Price_Qty |-> CleanValue(part.Price_Qty),
      Unit_Price |-> CleanValue(part.Unit_Price),
      Currency |-> CleanValue(part.Currency),
      Supplier_Name |-> CleanValue(part.Supplier_Name),
      On_Hand_Stock |-> CleanValue(part.On_Hand_Stock),
      Distributor_Block |-> CleanValue(part.Distributor_Block),
      has_scrape_time |-> TRUE,
      scrape_time |-> Stamp ]

\* Lines 720-733: the filter, the early return, the cleaning and the stamp.
SaveCsvFilter(t) ==
    /\ Running
    /\ pc[t] = "sv_filter"
    /\ IF Unsaved(all_parts) = {}
       THEN /\ lock' = NoThread
            /\ pc' = [pc EXCEPT ![t] = AfterSave(t)]
            /\ UNCHANGED << all_parts, new_parts >>
       ELSE /\ new_parts' = [new_parts EXCEPT ![t] = Unsaved(all_parts)]
            /\ all_parts' = [i \in 1..Len(all_parts) |->
                               IF i \in Unsaved(all_parts) THEN CleanPart(all_parts[i])
                               ELSE all_parts[i]]
            /\ pc' = [pc EXCEPT ![t] = "sv_write"]
            /\ UNCHANGED lock
    /\ UNCHANGED << site, discovered, raised, thread_errors, visited_urls, save_filename,
                    save_running, csv_rows, write_failures, threads_categories,
                    stack, cat_idx, page, rows, nav >>

\* The rows writer.writerows(new_parts) appends, in list order.
RECURSIVE RowsOf(_, _, _)
RowsOf(parts, sel, i) ==
    IF i > Len(parts) THEN << >>
    ELSE (IF i \in sel THEN << <<i, parts[i]>> >> ELSE << >>) \o RowsOf(parts, sel, i + 1)

\* Lines 736-750: the append to the file, or the logged failure; the lock is
\* released on leaving the with block.
SaveCsvWrite(t) ==
    /\ Running
    /\ pc[t] = "sv_write"
    /\ \/ /\ csv_rows' = csv_rows \o RowsOf(all_parts, new_parts[t], 1)
          /\ UNCHANGED write_failures
       \/ /\ write_failures < MaxWriteFailures
          /\ write_failures' = write_failures + 1
          /\ UNCHANGED csv_rows
    /\ new_parts' = [new_parts EXCEPT ![t] = {}]
    /\ lock' = NoThread
    /\ pc' = [pc EXCEPT ![t] = AfterSave(t)]
    /\ UNCHANGED << site, discovered, raised, thread_errors, all_parts, visited_urls, save_filename,
                    save_running, threads_categories,
                    stack, cat_idx, page, rows, nav >>

\* ------------------------------------------------------- auto_save_worker
\* Lines 704-705: the loop test and the sleep.
AutoSaveLoop ==
    /\ Running
    /\ pc[SaverThread] = "as_loop"
    /\ pc' = [pc EXCEPT ![SaverThread] = IF save_running THEN "as_check" ELSE "as_done"]
    /\ UNCHANGED << site, discovered, raised, thread_errors, all_parts, visited_urls, lock, save_filename,
                    save_running, csv_rows, write_failures, threads_categories,
                    stack, cat_idx, page, rows, new_parts, nav >>

\* Line 706, read without the lock.
AutoSaveCheck ==
    /\ Running
    /\ pc[SaverThread] = "as_check"
    /\ pc' = [pc EXCEPT ![SaverThread] =
                IF all_parts # << >> /\ save_filename # "None" /\ save_running
                THEN "sv_pre" ELSE "as_loop"]
    /\ UNCHANGED << site, discovered, raised, thread_errors, all_parts, visited_urls, lock, save_filename,
                    save_running, csv_rows, write_failures, threads_categories,
                    stack, cat_idx, page, rows, new_parts, nav >>

\* Line 708: len(self.all_parts), read without the lock.
AutoSavePrint ==
    /\ Running
    /\ pc[SaverThread] = "as_print"
    /\ pc' = [pc EXCEPT ![SaverThread] = "as_loop"]
    /\ UNCHANGED << site, discovered, raised, thread_errors, all_parts, visited_urls, lock, save_filename,
                    save_running, csv_rows, write_failures, threads_categories,
                    stack, cat_idx, page, rows, new_parts, nav >>

\* ----------------------------------------------------------- worker_thread
\* One call of scrape_category_tree: its url, the identifiers and the links
\* still to be processed, and the page the links were found on.
Frame(u) == [url |-> u, mpns |-> << >>, subcats |-> << >>, links_page |-> BlankPage]
Top(w) == stack[w][Len(stack[w])]
Pop(w) == SubSeq(stack[w], 1, Len(stack[w]) - 1)
SetTop(w, f) == [stack[w] EXCEPT ![Len(stack[w])] = f]

\* Where a scrape_category_tree call returns to: the subcategory loop of the
\* calling frame (line 678), or worker_thread's line 765.
ReturnTo(w) == IF Len(stack[w]) > 1 THEN "sct_sub" ELSE "wt_print"

\* Lines 760-764 and 770-772: the next category of the subset, or the end of
\* the loop and driver.quit().
WorkerLoop(w) ==
    /\ Running
    /\ pc[w] = "wt_loop"
    /\ IF cat_idx[w] < Len(threads_categories[w])
       THEN /\ cat_idx' = [cat_idx EXCEPT ![w] = cat_idx[w] + 1]
            /\ stack' = [stack EXCEPT ![w] = << Frame(threads_categories[w][cat_idx[w] + 1].href) >>]
            /\ pc' = [pc EXCEPT ![w] = "sct_check"]
            /\ UNCHANGED page
       ELSE /\ pc' = [pc EXCEPT ![w] = "wt_done"]
            /\ page' = [page EXCEPT ![w] = ClosedPage]
            /\ UNCHANGED << cat_idx, stack >>
    /\ UNCHANGED << site, discovered, raised, thread_errors, all_parts, visited_urls, lock, save_filename,
                    save_running, csv_rows, write_failures, threads_categories,
                    rows, new_parts, nav >>

\* Lines 765-766: the lock is taken for the print of len(self.all_parts).
WorkerPrint(w) ==
    /\ Running
    /\ pc[w] = "wt_print"
    /\ lock = NoThread
    /\ lock' = w
    /\ pc' = [pc EXCEPT ![w] = "wt_unlock"]
    /\ UNCHANGED << site, discovered, raised, thread_errors, all_parts, visited_urls, save_filename,
                    save_running, csv_rows, write_failures, threads_categories,
                    stack, cat_idx, page, rows, new_parts, nav >>

WorkerUnlock(w) ==
    /\ Running
    /\ pc[w] = "wt_unlock"
    /\ lock' = NoThread
    /\ pc' = [pc EXCEPT ![w] = "wt_loop"]
    /\ UNCHANGED << site, discovered, raised, thread_errors, all_parts, visited_urls, save_filename,
                    save_running, csv_rows, write_failures, threads_categories,
                    stack, cat_idx, page, rows, new_parts, nav >>

\* ---------------------------------------------------- scrape_category_tree
\* The test without the visited set.
Skipped_capOnly(url, visited, parts) == Len(parts) > RecordCap

\* The test without the record cap.
Skipped_visitedOnly(url, visited, parts) == url \in visited

\* The test of line 634, read without the lock.
Skipped(url, visited, parts) == url \in visited \/ Len(parts) > RecordCap

\* Lines 634-635.
SctCheck(w) ==
    /\ Running
    /\ pc[w] = "sct_check"
    /\ IF Skipped(Top(w).url, visited_urls, all_parts)
       THEN /\ pc' = [pc EXCEPT ![w] = ReturnTo(w)]
            /\ stack' = [stack EXCEPT ![w] = Pop(w)]
       ELSE /\ pc' = [pc EXCEPT ![w] = "sct_add"]
            /\ UNCHANGED stack
    /\ UNCHANGED << site, discovered, raised, thread_errors, all_parts, visited_urls, lock, save_filename,
                    save_running, csv_rows, write_failures, threads_categories,
                    cat_idx, page, rows, new_parts, nav >>

\* The url is not recorded.
SctAdd_forgets(w) ==
    /\ Running
    /\ pc[w] = "sct_add"
    /\ pc' = [pc EXCEPT ![w] = "sct_get"]
    /\ UNCHANGED << site, discovered, raised, thread_errors, all_parts, visited_urls, lock, save_filename,
                    save_running, csv_rows, write_failures, threads_categories,
                    stack, cat_idx, page, rows, new_parts, nav >>

\* Line 637.
SctAdd(w) ==
    /\ Running
    /\ pc[w] = "sct_add"
    /\ visited_urls' = visited_urls \cup {Top(w).url}
    /\ pc' = [pc EXCEPT ![w] = "sct_get"]
    /\ UNCHANGED << site, discovered, raised, thread_errors, all_parts, lock, save_filename,
                    save_running, csv_rows, write_failures, threads_categories,
                    stack, cat_idx, page, rows, new_parts, nav >>

\* Lines 641-649: driver.get(url) and find_real_mpns.
SctGet(w) ==
    /\ Running
    /\ pc[w] = "sct_get"
    /\ nav' = [nav EXCEPT ![w][Top(w).url] = @ + 1]
    /\ page' = [page EXCEPT ![w] = CategoryPage(Top(w).url)]
    /\ stack' = [stack EXCEPT ![w] =
                   SetTop(w, [Top(w) EXCEPT !.mpns = find_real_mpns(site, Top(w).url)])]
    /\ pc' = [pc EXCEPT ![w] = "sct_mpn"]
    /\ UNCHANGED << site, discovered, raised, thread_errors, all_parts, visited_urls, lock, save_filename,
                    save_running, csv_rows, write_failures, threads_categories,
                    cat_idx, rows, new_parts >>

\* Lines 652-664 for the next identifier: the driver goes to its results
\* page, and the rows are extracted unless the page has the "no
\* manufacturers" marker.  After the last identifier, line 675 reads the
\* '/parametric/' links of the page the driver shows.
SctMpn(w) ==
    /\ Running
    /\ pc[w] = "sct_mpn"
    /\ IF Top(w).mpns = << >>
       THEN /\ stack' = [stack EXCEPT ![w] =
                           SetTop(w, [Top(w) EXCEPT !.subcats = PageLinks(site, page[w]),
                                                    !.links_page = page[w]])]
            /\ pc' = [pc EXCEPT ![w] = "sct_sub"]
            /\ UNCHANGED << page, rows >>
       ELSE LET mpn == Head(Top(w).mpns)
            IN /\ stack' = [stack EXCEPT ![w] =
                              SetTop(w, [Top(w) EXCEPT !.mpns = Tail(Top(w).mpns)])]
               /\ page' = [page EXCEPT ![w] = SearchPage(mpn)]
               /\ IF site.no_mfg[mpn]
                  THEN /\ pc' = pc
                       /\ UNCHANGED rows
                  ELSE /\ rows' = [rows EXCEPT ![w] = extract_rows_from_search_page(site, mpn)]
                       /\ pc' = [pc EXCEPT ![w] = "add_lock"]
    /\ UNCHANGED << site, discovered, raised, thread_errors, all_parts, visited_urls, lock, save_filename,
                    save_running, csv_rows, write_failures, threads_categories,
                    cat_idx, new_parts, nav >>

\* Line 38 of add_parts_threadsafe: with self.lock
AddPartsLock(w) ==
    /\ Running
    /\ pc[w] = "add_lock"
    /\ lock = NoThread
    /\ lock' = w
    /\ pc' = [pc EXCEPT ![w] = "add_append"]
    /\ UNCHANGED << site, discovered, raised, thread_errors, all_parts, visited_urls, save_filename,
                    save_running, csv_rows, write_failures, threads_categories,
                    stack, cat_idx, page, rows, new_parts, nav >>

\* Lines 39-41 of add_parts_threadsafe, and the release of the lock.
AddPartsAppend(w) ==
    /\ Running
    /\ pc[w] = "add_append"
    /\ all_parts' = AppendAdmitted(all_parts, rows[w])
    /\ rows' = [rows EXCEPT ![w] = << >>]
    /\ lock' = NoThread
    /\ pc' = [pc EXCEPT ![w] = "sct_mpn"]
    /\ UNCHANGED << site, discovered, raised, thread_errors, visited_urls, save_filename,
                    save_running, csv_rows, write_failures, threads_categories,
                    stack, cat_idx, page, new_parts, nav >>

\* The loop over the links without its advance: the call for the first link
\* is made again each time it returns.
SctSub_retries(w) ==
    /\ Running
    /\ pc[w] = "sct_sub"
    /\ IF Top(w).subcats = << >>
       THEN /\ pc' = [pc EXCEPT ![w] = ReturnTo(w)]
            /\ stack' = [stack EXCEPT ![w] = Pop(w)]
       ELSE /\ stack' = [stack EXCEPT ![w] = Append(stack[w], Frame(Head(Top(w).subcats)))]
            /\ pc' = [pc EXCEPT ![w] = "sct_check"]
    /\ UNCHANGED << site, discovered, raised, thread_errors, all_parts, visited_urls, lock, save_filename,
                    save_running, csv_rows, write_failures, threads_categories,
                    cat_idx, page, rows, new_parts, nav >>

\* Lines 678-688 for the next link: the recursive call when the href is not
\* in visited_urls, otherwise the next link.  After the last link the call
\* returns.
SctSub(w) ==
    /\ Running
    /\ pc[w] = "sct_sub"
    /\ IF Top(w).subcats = << >>
       THEN /\ pc' = [pc EXCEPT ![w] = ReturnTo(w)]
            /\ stack' = [stack EXCEPT ![w] = Pop(w)]
       ELSE LET href == Head(Top(w).subcats)
                rest == SetTop(w, [Top(w) EXCEPT !.subcats = Tail(Top(w).subcats)])
            IN IF href \notin visited_urls
               THEN /\ stack' = [stack EXCEPT ![w] = Append(rest, Frame(href))]
                    /\ pc' = [pc EXCEPT ![w] = "sct_check"]
               ELSE /\ stack' = [stack EXCEPT ![w] = rest]
                    /\ pc' = pc
    /\ UNCHANGED << site, discovered, raised, thread_errors, all_parts, visited_urls, lock, save_filename,
                    save_running, csv_rows, write_failures, threads_categories,
                    cat_idx, page, rows, new_parts, nav >>

\* Lines 680 and 687-688: reading the link raises (the element is stale once
\* the driver has left the page it was found on), and the loop goes on with
\* the next link.
SctSubRaises(w) ==
    /\ Running
    /\ pc[w] = "sct_sub"
    /\ Top(w).subcats # << >>
    /\ page[w] # Top(w).links_page
    /\ stack' = [stack EXCEPT ![w] =
                   SetTop(w, [Top(w) EXCEPT !.subcats = Tail(Top(w).subcats)])]
    /\ UNCHANGED << site, discovered, raised, thread_errors, all_parts, visited_urls, lock, save_filename,
                    save_running, csv_rows, write_failures, threads_categories,
                    pc, cat_idx, page, rows, new_parts, nav >>

\* --------------------------------------------------------------- failures
\* The failures that are modelled: the load of a category page raises, and
\* a statement outside every try block raises; at most MaxRaised of them in
\* one run.  The load of a results page (caught at line 669) does not fail
\* here.
\* Lines 641-645 raise (navigation error, wait timeout): the except of line
\* 690 logs it and the call returns.
SctGetRaises(w) ==
    /\ Running
    /\ raised < MaxRaised
    /\ raised' = raised + 1
    /\ pc[w] = "sct_get"
    /\ nav' = [nav EXCEPT ![w][Top(w).url] = @ + 1]
    /\ page' = [page EXCEPT ![w] = CategoryPage(Top(w).url)]
    /\ pc' = [pc EXCEPT ![w] = ReturnTo(w)]
    /\ stack' = [stack EXCEPT ![w] = Pop(w)]
    /\ UNCHANGED << site, discovered, thread_errors, all_parts, visited_urls, lock,
                    save_filename, save_running, csv_rows, write_failures,
                    threads_categories, cat_idx, rows, new_parts >>

\* worker_thread without the finally of lines 770-772: the failure ends the
\* thread and the session stays open.
WorkerRaises_noquit(w) ==
    /\ Running
    /\ raised < MaxRaised
    /\ raised' = raised + 1
    /\ \/ /\ pc[w] = "sct_get"
          /\ UNCHANGED lock
       \/ /\ pc[w] = "wt_unlock"
          /\ lock' = NoThread
    /\ thread_errors' = thread_errors \cup {w}
    /\ pc' = [pc EXCEPT ![w] = "wt_done"]
    /\ stack' = [stack EXCEPT ![w] = << >>]
    /\ UNCHANGED << site, discovered, all_parts, visited_urls, save_filename,
                    save_running, csv_rows, write_failures, threads_categories,
                    cat_idx, page, rows, new_parts, nav >>

\* A statement outside the try of scrape_category_tree raises (the print of
\* line 638), or the print of line 766 does.  In a nested call the bare
\* except of line 687 catches it and the caller goes on with its next link;
\* in the call made by worker_thread it reaches the except of line 768,
\* which logs it and leaves the loop over the categories.  The with block
\* of line 765 releases the lock.
WorkerRaises(w) ==
    /\ Running
    /\ raised < MaxRaised
    /\ raised' = raised + 1
    /\ \/ /\ pc[w] = "sct_get"
          /\ IF Len(stack[w]) > 1
             THEN /\ pc' = [pc EXCEPT ![w] = "sct_sub"]
                  /\ stack' = [stack EXCEPT ![w] = Pop(w)]
                  /\ UNCHANGED thread_errors
             ELSE /\ pc' = [pc EXCEPT ![w] = "wt_failed"]
                  /\ stack' = [stack EXCEPT ![w] = << >>]
                  /\ thread_errors' = thread_errors \cup {w}
          /\ UNCHANGED lock
       \/ /\ pc[w] = "wt_unlock"
          /\ lock' = NoThread
          /\ pc' = [pc EXCEPT ![w] = "wt_failed"]
          /\ thread_errors' = thread_errors \cup {w}
          /\ UNCHANGED stack
    /\ UNCHANGED << site, discovered, all_parts, visited_urls, save_filename,
                    save_running, csv_rows, write_failures, threads_categories,
                    cat_idx, page, rows, new_parts, nav >>

\* Lines 770-772 after a failure: driver.quit().
WorkerQuit(w) ==
    /\ Running
    /\ pc[w] = "wt_failed"
    /\ page' = [page EXCEPT ![w] = ClosedPage]
    /\ pc' = [pc EXCEPT ![w] = "wt_done"]
    /\ UNCHANGED << site, discovered, raised, thread_errors, all_parts, visited_urls, lock,
                    save_filename, save_running, csv_rows, write_failures,
                    threads_categories, stack, cat_idx, rows, new_parts, nav >>

\* ------------------------------------------------------------------- Next
Next ==
    \/ RunParallelStart
    \/ RunParallelJoin
    \/ RunParallelStop
    \/ \E t \in Savers : SaveCsvPre(t)
    \/ \E t \in Savers : SaveCsvLock(t)
    \/ \E t \in Savers : SaveCsvFilter(t)
    \/ \E t \in Savers : SaveCsvWrite(t)
    \/ AutoSaveLoop
    \/ AutoSaveCheck
    \/ AutoSavePrint
    \/ \E w \in Workers : WorkerLoop(w)
    \/ \E w \in Workers : WorkerPrint(w)
    \/ \E w \in Workers : WorkerUnlock(w)
    \/ \E w \in Workers : SctCheck(w)
    \/ \E w \in Workers : SctAdd(w)
    \/ \E w \in Workers : SctGet(w)
    \/ \E w \in Workers : SctMpn(w)
    \/ \E w \in Workers : AddPartsLock(w)
    \/ \E w \in Workers : AddPartsAppend(w)
    \/ \E w \in Workers : SctSub(w)
    \/ \E w \in Workers : SctSubRaises(w)
    \/ \E w \in Workers : SctGetRaises(w)
    \/ \E w \in Workers : WorkerRaises(w)
    \/ \E w \in Workers : WorkerQuit(w)

Spec == Init /\ [][Next]_vars

\* The loop of line 652 moves on: the step of SctMpn as it shows on the
\* worker's frame.
SctMpnAdvance(w) ==
    /\ Running
    /\ pc[w] = "sct_mpn"
    /\ stack' = [stack EXCEPT ![w] =
                   SetTop(w, IF Top(w).mpns = << >>
                             THEN [Top(w) EXCEPT !.subcats = PageLinks(site, page[w]),
                                                 !.links_page = page[w]]
                             ELSE [Top(w) EXCEPT !.mpns = Tail(Top(w).mpns)])]

\* The statements a worker runs when nothing raises, the loop of line 652
\* apart.
WorkerStep(w) ==
    \/ WorkerLoop(w)
    \/ WorkerPrint(w)
    \/ WorkerUnlock(w)
    \/ SctCheck(w)
    \/ SctAdd(w)
    \/ SctGet(w)
    \/ AddPartsLock(w)
    \/ AddPartsAppend(w)
    \/ SctSub(w)
    \/ WorkerQuit(w)

SaveStep(t) ==
    \/ SaveCsvPre(t)
    \/ SaveCsvLock(t)
    \/ SaveCsvFilter(t)
    \/ SaveCsvWrite(t)

MainStep ==
    \/ RunParallelStart
    \/ RunParallelJoin
    \/ RunParallelStop
    \/ SaveStep(MainThread)

SaverStep ==
    \/ AutoSaveLoop
    \/ AutoSaveCheck
    \/ AutoSavePrint
    \/ SaveStep(SaverThread)

\* Every thread that can run its next statement does so; a thread waiting
\* for the lock gets it when it is free again and again (the saver sleeps
\* 300 s between two drains).  Nothing obliges a statement to raise.
Fairness ==
    /\ SF_vars(MainStep)
    /\ WF_vars(SaverStep)
    /\ \A w \in Workers : SF_vars(WorkerStep(w)) /\ WF_stack(SctMpnAdvance(w))

FairSpec == Spec /\ Fairness

\* ------------------------------------------------- the split, on its own
\* Lines 787-800 with the six threads of the code: the early return, or the
\* list threads_categories.
SplitCategories ==
    /\ pc[MainThread] = "rp_start"
    /\ IF Len(discovered) = 0
       THEN /\ pc' = [pc EXCEPT ![MainThread] = "rp_done"]
            /\ UNCHANGED threads_categories
       ELSE /\ threads_categories' = ThreadsCategories(discovered, NumThreads)
            /\ pc' = [pc EXCEPT ![MainThread] = "rp_launch"]
    /\ UNCHANGED << site, discovered, raised, thread_errors, all_parts, visited_urls, lock, save_filename,
                    save_running, csv_rows, write_failures, stack, cat_idx, page,
                    rows, new_parts, nav >>

InitSplit ==
    /\ site = SiteCycle
    /\ discovered \in {Discovered(n) : n \in 0..MaxSplitCats}
    /\ all_parts = << >>
    /\ visited_urls = {}
    /\ lock = NoThread
    /\ save_filename = "None"
    /\ save_running = FALSE
    /\ csv_rows = << >>
    /\ write_failures = 0
    /\ threads_categories = << >>
    /\ pc = [t \in Threads |-> IF t = MainThread THEN "rp_start" ELSE "idle"]
    /\ stack = [w \in Workers |-> << >>]
    /\ cat_idx = [w \in Workers |-> 0]
    /\ page = [w \in Workers |-> BlankPage]
    /\ rows = [w \in Workers |-> << >>]
    /\ new_parts = [t \in Savers |-> {}]
    /\ nav = [w \in Workers |-> [u \in Urls |-> 0]]
    /\ thread_errors = {}
    /\ raised = 0

NextSplit == SplitCategories

SpecSplit == InitSplit /\ [][NextSplit]_vars

\* ----------------------------------------------------- one results page
\* The worker that gets the one discovered category (the last one, lines
\* 796-799).
RowWorker == NumWorkers

\* run_parallel has launched the threads on one category of a SiteRow
\* catalog, and RowWorker has loaded the category page and found M1 (lines
\* 634-649).
InitRows ==
    /\ site \in {SiteRow(tr) : tr \in TestRows}
    /\ discovered = Discovered(1)
    /\ all_parts = << >>
    /\ visited_urls = {"A"}
    /\ lock = NoThread
    /\ save_filename = FileName
    /\ save_running = TRUE
    /\ csv_rows = << >>
    /\ write_failures = 0
    /\ threads_categories = ThreadsCategories(Discovered(1), NumWorkers)
    /\ pc = [t \in Threads |->
               IF t = MainThread THEN "rp_join"
               ELSE IF t = SaverThread THEN "as_loop"
               ELSE IF t = RowWorker THEN "sct_mpn" ELSE "wt_loop"]
    /\ stack = [w \in Workers |->
                  IF w = RowWorker THEN << [Frame("A") EXCEPT !.mpns = <<M1>>] >> ELSE << >>]
    /\ cat_idx = [w \in Workers |-> IF w = RowWorker THEN 1 ELSE 0]
    /\ page = [w \in Workers |-> IF w = RowWorker THEN CategoryPage("A") ELSE BlankPage]
    /\ rows = [w \in Workers |-> << >>]
    /\ new_parts = [t \in Savers |-> {}]
    /\ nav = [w \in Workers |-> [u \in Urls |-> IF w = RowWorker /\ u = "A" THEN 1 ELSE 0]]
    /\ thread_errors = {}
    /\ raised = 0

\* The identifier loop of RowWorker: the extraction and add_parts_threadsafe.
NextRows ==
    \/ SctMpn(RowWorker)
    \/ AddPartsLock(RowWorker)
    \/ AddPartsAppend(RowWorker)

SpecRows == InitRows /\ [][NextRows]_vars

\* ----------------------------------------------------------------- claims
\* The indices (in all_parts) of the records that have a row in the file.
WrittenIdx == {csv_rows[k][1] : k \in 1..Len(csv_rows)}

\* The number of driver.get(url) calls for the category address u, over all
\* workers.
RECURSIVE NavSum(_, _)
NavSum(u, ws) ==
    IF ws = {} THEN 0
    ELSE LET w == CHOOSE x \in ws : TRUE IN nav[w][u] + NavSum(u, ws \ {w})

\* C1: every record in all_parts has a non-empty MPN and a non-empty
\* Supplier_Name, whatever the interleaving of appends and drains.
C1_AdmittedRecords ==
    \A i \in 1..Len(all_parts) :
        all_parts[i].MPN # << >> /\ all_parts[i].Supplier_Name # << >>

\* C1 witness: a drained (cleaned) record and a not yet drained one are in
\* all_parts together.
C1_Witness ==
    \E i, j \in 1..Len(all_parts) :
        /\ all_parts[i].has_scrape_time
        /\ all_parts[i].Distributor_Block = <<"A", " ", "b">>
        /\ ~all_parts[j].has_scrape_time

\* C2: no record has two rows in the file, and a save_csv that gets to the
\* write has selected at least one record, none of which is in the file yet
\* (a save_csv that finds no record without scrape_time writes nothing).
C2_AtMostOnce ==
    /\ \A k, l \in 1..Len(csv_rows) : csv_rows[k][1] = csv_rows[l][1] => k = l
    /\ \A t \in Savers :
          pc[t] = "sv_write" => new_parts[t] # {} /\ new_parts[t] \cap WrittenIdx = {}
    /\ \A t \in Savers : pc[t] # "sv_write" => new_parts[t] = {}

\* C2 witness: the final save_csv holds the lock and finds every record
\* stamped, the file holding their rows already.
C2_Witness ==
    /\ pc[MainThread] = "sv_filter"
    /\ Unsaved(all_parts) = {}
    /\ Len(csv_rows) >= 2
    /\ Len(csv_rows) = Len(all_parts)

\* C3 (as claimed): while no save_csv is under way, every record that carries
\* scrape_time has its row in the file, so that a failed write leaves its
\* records selectable by the next save_csv.
C3_StampedImpliesWritten ==
    lock = NoThread =>
        \A i \in 1..Len(all_parts) : all_parts[i].has_scrape_time => i \in WrittenIdx

\* C4: when run_parallel has returned after the join and no write failed,
\* every record of all_parts carries scrape_time and has its row in the file.
C4_FinalSavePersistsAll ==
    (pc[MainThread] = "rp_done" /\ threads_categories # << >> /\ write_failures = 0) =>
        \A i \in 1..Len(all_parts) :
            all_parts[i].has_scrape_time /\ i \in WrittenIdx

\* C4 witness: run_parallel has returned after the join, no write failed, and
\* the file holds a row for each of the three or more records of all_parts.
C4_Witness ==
    /\ pc[MainThread] = "rp_done"
    /\ write_failures = 0
    /\ Len(all_parts) >= 3
    /\ Len(csv_rows) = Len(all_parts)
    /\ \A w \in Workers : pc[w] = "wt_done"

\* C5: a worker navigates to each category address at most once.
C5_WorkerVisitsOnce ==
    \A w \in Workers : \A u \in Urls : nav[w][u] <= 1

\* C5 witness: on the cycle A -> B -> A a worker that went from A into B has
\* passed B's link back to A and has B's next link (C) left.
C5_Witness ==
    /\ site = SiteCycle
    /\ \E w \in Workers :
          /\ nav[w]["A"] = 1
          /\ nav[w]["B"] = 1
          /\ Len(stack[w]) = 2
          /\ stack[w][1].url = "A"
          /\ Top(w).url = "B"
          /\ pc[w] = "sct_sub"
          /\ Top(w).subcats = <<"C">>

\* C6 (as claimed): over all workers, each category address is navigated to
\* at most once.
C6_NoAddressVisitedTwice ==
    \A u \in Urls : NavSum(u, Workers) <= 1

\* C7 (as claimed): visited_urls is private to each worker, so a worker that
\* has not itself navigated to an address, entering scrape_category_tree for
\* it below the record cap, goes on to visit it.
C7_VisitedPrivate ==
    [][ \A w \in Workers :
          ( /\ pc[w] = "sct_check"
            /\ pc'[w] # "sct_check"
            /\ nav[w][Top(w).url] = 0
            /\ Len(all_parts) <= RecordCap )
          => pc'[w] = "sct_add" ]_vars

\* C7 (amended): visited_urls is shared by all workers; a worker entering
\* scrape_category_tree for an address that any worker has navigated to
\* skips it.
C7_VisitedShared ==
    [][ \A w \in Workers :
          ( /\ pc[w] = "sct_check"
            /\ pc'[w] # "sct_check"
            /\ \E v \in Workers : nav[v][Top(w).url] > 0 )
          => ( /\ pc'[w] # "sct_add"
               /\ Len(stack'[w]) = Len(stack[w]) - 1 ) ]_vars

\* C7 witness: a worker is at the entry test, below the cap, for an address
\* that only another worker has navigated to.
C7_Witness ==
    \E w \in Workers :
        /\ pc[w] = "sct_check"
        /\ nav[w][Top(w).url] = 0
        /\ Len(all_parts) <= RecordCap
        /\ \E v \in Workers \ {w} : nav[v][Top(w).url] > 0

\* The statements that read or write all_parts: line 634 (unless the url is
\* already visited), 39-41, 766, 715, 720-733, 747, 706 and 708.
AtAccess(t) ==
    \/ pc[t] \in {"add_append", "wt_unlock", "sv_pre", "sv_filter", "sv_write",
                  "as_check", "as_print"}
    \/ /\ pc[t] = "sct_check"
       /\ Top(t).url \notin visited_urls

\* C8 (as claimed): a thread that is at a statement reading or writing
\* all_parts holds the lock.
C8_AccessUnderLock ==
    \A t \in Threads : AtAccess(t) => lock = t

\* C9 (as claimed): entered with RecordCap records or more in all_parts,
\* scrape_category_tree returns at once: nothing is added to visited_urls,
\* nothing is navigated to, nothing is appended.
C9_SkipAtCap ==
    [][ \A w \in Workers :
          ( /\ pc[w] = "sct_check"
            /\ pc'[w] # "sct_check"
            /\ Len(all_parts) >= RecordCap )
          => ( /\ pc'[w] = ReturnTo(w)
               /\ Len(stack'[w]) = Len(stack[w]) - 1
               /\ visited_urls' = visited_urls
               /\ nav' = nav
               /\ all_parts' = all_parts ) ]_vars

\* C9 (amended): entered with more than RecordCap records in all_parts,
\* scrape_category_tree returns at once: nothing is added to visited_urls,
\* nothing is navigated to, nothing is appended.
C9_SkipAboveCap ==
    [][ \A w \in Workers :
          ( /\ pc[w] = "sct_check"
            /\ pc'[w] # "sct_check"
            /\ Len(all_parts) > RecordCap )
          => ( /\ pc'[w] = ReturnTo(w)
               /\ Len(stack'[w]) = Len(stack[w]) - 1
               /\ visited_urls' = visited_urls
               /\ nav' = nav
               /\ all_parts' = all_parts ) ]_vars

\* C9 witness: a worker is at the entry test for an address nobody has
\* visited while all_parts holds more than RecordCap records.
C9_Witness ==
    \E w \in Workers :
        /\ pc[w] = "sct_check"
        /\ Top(w).url \notin visited_urls
        /\ Len(all_parts) > RecordCap

\* The places <<thread, position>> where the category c was put.
PlacesOf(c) ==
    {tp \in (1..Len(threads_categories)) \X (1..Len(discovered)) :
        /\ tp[2] <= Len(threads_categories[tp[1]])
        /\ threads_categories[tp[1]][tp[2]] = c}

\* C10: the six subsets are a partition of the discovered categories: each
\* category is in exactly one subset, once, and the subsets hold nothing else.
C10_SplitIsPartition ==
    pc[MainThread] = "rp_launch" =>
        /\ Len(threads_categories) = NumThreads
        /\ \A i \in 1..Len(discovered) : Cardinality(PlacesOf(discovered[i])) = 1
        /\ \A t \in 1..Len(threads_categories) :
              \A j \in 1..Len(threads_categories[t]) :
                  \E i \in 1..Len(discovered) : threads_categories[t][j] = discovered[i]

\* C10 witness: thirteen categories (not a multiple of six) have been split,
\* the last subset taking three.
C10_Witness ==
    /\ pc[MainThread] = "rp_launch"
    /\ Len(discovered) = 13
    /\ Len(threads_categories[6]) = 3

\* Every record of all_parts is stamped and has its row in the file.
AllPersisted ==
    \A i \in 1..Len(all_parts) : all_parts[i].has_scrape_time /\ i \in WrittenIdx

\* C11: once a worker has logged a failure, the run still ends: run_parallel
\* returns after the join, every worker (the failed one too) has closed its
\* session, every worker that did not fail has gone through its whole subset,
\* and the final save has persisted every record unless a write failed.
C11_FailureContained ==
    \A w \in Workers :
        (w \in thread_errors) ~>
            ( /\ pc[MainThread] = "rp_done"
              /\ \A v \in Workers : pc[v] = "wt_done" /\ page[v] = ClosedPage
              /\ \A v \in Workers \ thread_errors :
                    cat_idx[v] = Len(threads_categories[v])
              /\ (write_failures = 0 => AllPersisted) )

\* C11 witness: run_parallel has returned although a worker failed; another
\* worker went through its subset and its records are in the file.
C11_Witness ==
    /\ pc[MainThread] = "rp_done"
    /\ thread_errors # {}
    /\ \E v \in Workers \ thread_errors :
          /\ Len(threads_categories[v]) > 0
          /\ cat_idx[v] = Len(threads_categories[v])
          /\ \E u \in Urls : nav[v][u] > 0
    /\ \A v \in Workers : page[v] = ClosedPage
    /\ csv_rows # << >>
    /\ AllPersisted

\* C12: on every catalog of Sites (SiteCycle has the cycle A -> B -> A, the
\* self-link C -> C and two links to one address) a scrape_category_tree
\* call that a worker has entered is eventually over: the worker's call
\* stack becomes empty again.
C12_CallReturns ==
    \A w \in Workers : (Len(stack[w]) > 0) ~> (Len(stack[w]) = 0)

\* C12 witness: on the cyclic catalog a worker's outermost call has returned
\* after it went round the cycle (it visited A and B, nothing raised), and
\* every address is in the visited set.
C12_Witness ==
    /\ site = SiteCycle
    /\ raised = 0
    /\ visited_urls = Urls
    /\ \E w \in Workers :
          /\ pc[w] = "wt_print"
          /\ stack[w] = << >>
          /\ nav[w]["A"] > 0
          /\ nav[w]["B"] > 0

\* The distributor row of the results page under extraction.
TheRow == site.rows[M1][1]

\* A price-list entry whose digit-only quantity and cleaned price are both
\* non-empty.
ValidPair(li) ==
    /\ \E i \in 1..Len(li.qty) : li.qty[i] \in DigitChars
    /\ clean_price_text(Strip(li.value)) # << >>

\* Two records agree on every field other than Price_Qty, Unit_Price and
\* Currency.
SameButPrice(r, base) ==
    [r EXCEPT !.Price_Qty = << >>, !.Unit_Price = << >>, !.Currency = << >>]
        = [base EXCEPT !.Price_Qty = << >>, !.Unit_Price = << >>, !.Currency = << >>]

\* C13: for a row whose cleaned supplier name is not empty, the extraction
\* emits as many records as the price list has valid pairs, each equal to
\* the base record outside Price_Qty, Unit_Price and Currency; without a
\* price list it emits the base record alone when the stock is not empty
\* and nothing when it is.
C13_PriceBreakExpansion ==
    (pc[RowWorker] = "add_lock" /\ clean_mfg_name(TheRow.distributor_name) # << >>) =>
        LET base == BasePart(M1, TheRow)
            N    == Cardinality({k \in 1..Len(TheRow.prices) : ValidPair(TheRow.prices[k])})
        IN IF TheRow.prices # << >>
           THEN /\ Len(rows[RowWorker]) = N
                /\ \A k \in 1..Len(rows[RowWorker]) : SameButPrice(rows[RowWorker][k], base)
           ELSE rows[RowWorker] = IF extract_perfect_stock(TheRow) # << >>
                                  THEN <<base>>
                                  ELSE << >>

\* C13 witness: a row with stock and two valid pairs gave two records that
\* differ in their quantity.
C13_Witness ==
    /\ pc[RowWorker] = "add_lock"
    /\ Len(TheRow.prices) = 2
    /\ \A k \in 1..2 : ValidPair(TheRow.prices[k])
    /\ extract_perfect_stock(TheRow) # << >>
    /\ Len(rows[RowWorker]) = 2
    /\ rows[RowWorker][1].Price_Qty # rows[RowWorker][2].Price_Qty

\* None of the three stock sources of the row is a number.
NoNumericStock(tr) ==
    \A src \in {tr.data_stock, tr.td_stock, tr.data_instock} : ~IsDigit(Strip(src))

\* The row gives no record although its supplier name is not empty: it has
\* neither price list nor stock, or a price list without a valid pair.
NoSignal(tr) ==
    \/ tr.prices = << >> /\ NoNumericStock(tr)
    \/ tr.prices # << >> /\ \A k \in 1..Len(tr.prices) : ~ValidPair(tr.prices[k])

\* add_parts_threadsafe has returned for the records of the row.
RowAdded == pc[RowWorker] = "sct_mpn" /\ Top(RowWorker).mpns = << >>

C15_LinksOfCategoryPage ==
    \A w \in Workers :
        pc[w] = "sct_sub" =>
            /\ Top(w).links_page = CategoryPage(Top(w).url)
            /\ Top(w).subcats \in {site.cat_links[Top(w).url]} \cup
                  {SubSeq(site.cat_links[Top(w).url], k, Len(site.cat_links[Top(w).url])) :
                      k \in 1..(Len(site.cat_links[Top(w).url]) + 1)}

\* C16: a thread that is about to write the file (lines 736-747 of
\* save_csv) does not hold the lock.
C16_NoIoUnderLock ==
    \A t \in Savers : pc[t] = "sv_write" => lock # t

\* The text columns of a record.
TextFields ==
    {"MPN", "Price_Qty", "Unit_Price", "Currency", "Supplier_Name",
     "On_Hand_Stock", "Distributor_Block"}

\* A value the cleaning of save_csv has nothing to do on: at most FieldMax
\* characters, no whitespace at either end, no whitespace other than single
\* spaces.
IsCleanText(v) ==
    /\ Len(v) <= FieldMax
    /\ v # << >> => v[1] \notin SpaceChars /\ v[Len(v)] \notin SpaceChars
    /\ \A k \in 1..Len(v) : v[k] \in SpaceChars => v[k] = " "
    /\ \A k \in 1..(Len(v) - 1) : ~(v[k] = " " /\ v[k + 1] = " ")

\* The characters of v that are not whitespace, in order.
Inked(v) == SelectSeq(v, LAMBDA c : c \notin SpaceChars)

\* C17 as stated: no step changes a text column of a record that is in
\* all_parts; a drain only attaches scrape_time.
C17_DrainOnlyStamps ==
    [][\A i \in 1..Len(all_parts) : \A f \in TextFields :
          all_parts'[i][f] = all_parts[i][f]]_vars

\* C17 amended: a record in all_parts is changed only by the drain that
\* stamps it; that drain leaves every text column that is in clean form as
\* it is and replaces the others by a clean text with the same characters
\* outside whitespace.
C17_DrainCleansAndStamps ==
    [][\/ all_parts' = all_parts
       \/ \A i \in 1..Len(all_parts) :
             \/ all_parts'[i] = all_parts[i]
             \/ /\ ~all_parts[i].has_scrape_time
                /\ all_parts'[i].has_scrape_time
                /\ all_parts'[i].scrape_time = Stamp
                /\ \E t \in Savers : pc[t] = "sv_filter" /\ lock = t
                /\ \A f \in TextFields :
                      /\ IsCleanText(all_parts[i][f]) => all_parts'[i][f] = all_parts[i][f]
                      /\ all_parts'[i][f] # all_parts[i][f] =>
                            /\ IsCleanText(all_parts'[i][f])
                            /\ Inked(all_parts'[i][f]) = Inked(all_parts[i][f])]_vars

\* C17 witness: a stamped record whose Distributor_Block is the cleaned form
\* of the attribute "A  b" of its row.
C17_Witness ==
    \E i \in 1..Len(all_parts) :
        /\ all_parts[i].has_scrape_time
        /\ all_parts[i].MPN = M1
        /\ all_parts[i].Distributor_Block = <<"A", " ", "b">>
        /\ all_parts[i].Distributor_Block # RowPrices.distributor_name
====
